---- MODULE Spec2Model ----
(***************************************************************************)
(* Model of the sieve_rs query DSL parser: FilterOperator::from_str,       *)
(* FilterTerm::from_str, SortTerm::from_str and SieveModel::new.           *)
(*                                                                         *)
(* A Rust &str is modelled as a sequence of characters, each character a   *)
(* one-character TLA+ string.  Rust indexes strings by byte, so each       *)
(* character carries its UTF-8 width (char_len); a slice at a byte offset  *)
(* that is out of range or inside a character panics, as in Rust.          *)
(***************************************************************************)
EXTENDS Integers, Sequences, FiniteSets, TLC

VARIABLES pc, fn, arg, page_arg, page_size_arg, filters_arg, sorts_arg,
          op_res, term_res, sort_res, model

vars == <<pc, fn, arg, page_arg, page_size_arg, filters_arg, sorts_arg,
          op_res, term_res, sort_res, model>>

(***************************************************************************)
(* Bounds of the explored inputs.                                          *)
(***************************************************************************)
MaxLen == 3
MaxName == 2
MaxSortLen == 4
MaxLeft == 3

(***************************************************************************)
(* Strings.                                                                *)
(***************************************************************************)
StrOver(A, n) == UNION {[1..k -> A] : k \in 0..n}

\* UTF-8 width of a character (char::len_utf8); the only non-ASCII
\* character of the explored alphabet is U+00E9.
char_len(c) == IF c = "é" THEN 2 ELSE 1

RECURSIVE str_len(_)
str_len(s) == IF s = <<>> THEN 0 ELSE char_len(Head(s)) + str_len(Tail(s))

is_whitespace(c) == c = " "

RECURSIVE trim_start(_)
trim_start(s) ==
    IF s = <<>> \/ ~is_whitespace(Head(s)) THEN s ELSE trim_start(Tail(s))

RECURSIVE trim_end(_)
trim_end(s) ==
    IF s = <<>> \/ ~is_whitespace(s[Len(s)]) THEN s
    ELSE trim_end(SubSeq(s, 1, Len(s) - 1))

trim(s) == trim_end(trim_start(s))

starts_with(s, p) == Len(s) >= Len(p) /\ SubSeq(s, 1, Len(p)) = p

ends_with(s, p) ==
    Len(s) >= Len(p) /\ SubSeq(s, Len(s) - Len(p) + 1, Len(s)) = p

\* str::find: position (1-based) of the first character in set C, 0 for None.
find(s, C) ==
    LET hits == {i \in 1..Len(s) : s[i] \in C}
    IN  IF hits = {} THEN 0 ELSE CHOOSE i \in hits : \A j \in hits : i <= j

contains(s, c) == find(s, {c}) # 0

\* A split that loses empty pieces.
RECURSIVE split_skip_empty(_, _)
split_skip_empty(s, d) ==
    LET i == find(s, {d})
    IN  IF i = 0 THEN (IF s = <<>> THEN <<>> ELSE <<s>>)
        ELSE (IF i = 1 THEN <<>> ELSE <<SubSeq(s, 1, i - 1)>>)
             \o split_skip_empty(SubSeq(s, i + 1, Len(s)), d)

\* str::split(char): the pieces between the delimiters, empty pieces kept;
\* the empty string splits into one empty piece.
RECURSIVE split(_, _)
split(s, d) ==
    LET i == find(s, {d})
    IN  IF i = 0 THEN <<s>>
        ELSE <<SubSeq(s, 1, i - 1)>> \o split(SubSeq(s, i + 1, Len(s)), d)

\* &s[n..] for a byte offset n: panics when n is past the end or is not a
\* character boundary.
RECURSIVE slice_from(_, _)
slice_from(s, n) ==
    IF n = 0 THEN [panic |-> FALSE, str |-> s]
    ELSE IF s = <<>> \/ char_len(Head(s)) > n THEN [panic |-> TRUE, str |-> <<>>]
    ELSE slice_from(Tail(s), n - char_len(Head(s)))

map_trim(ss) == [i \in 1..Len(ss) |-> trim(ss[i])]

(***************************************************************************)
(* Operator vocabulary (filter_operator.rs).                               *)
(***************************************************************************)
FilterOperator ==
    {"Equals", "NotEquals", "GreaterThan", "LessThan", "GreaterThanOrEqualTo",
     "LessThanOrEqualTo", "Contains", "StartsWith", "EndsWith"}

RECURSIVE trim_end_matches(_, _)
trim_end_matches(s, c) ==
    IF s = <<>> \/ s[Len(s)] # c THEN s
    ELSE trim_end_matches(SubSeq(s, 1, Len(s) - 1), c)

FilterOperator_from_str(s) ==
    LET t == trim_end_matches(s, "*")
        ok(o) == [status |-> "Ok", operator |-> o]
    IN  CASE t = <<"=", "=">> -> ok("Equals")
          [] t = <<"!", "=">> -> ok("NotEquals")
          [] t = <<">">> -> ok("GreaterThan")
          [] t = <<"<">> -> ok("LessThan")
          [] t = <<">", "=">> -> ok("GreaterThanOrEqualTo")
          [] t = <<"<", "=">> -> ok("LessThanOrEqualTo")
          [] t = <<"@", "=">> \/ t = <<"!", "@", "=">> -> ok("Contains")
          [] t = <<"_", "=">> \/ t = <<"!", "_", "=">> -> ok("StartsWith")
          [] t = <<"_", "-", "=">> \/ t = <<"!", "_", "-", "=">> -> ok("EndsWith")
          [] OTHER -> [status |-> "Err", operator |-> "Equals"]

(***************************************************************************)
(* Filter term parser (filter_term.rs).                                    *)
(***************************************************************************)
OperatorStart == {"=", "!", "<", ">", "@", "_", "-"}

NoTerm == [names |-> <<>>, values |-> <<>>, operator |-> "Equals",
           case_insensitive |-> FALSE]

\* The prefix chain with the one-character tokens tested first.
operator_token_short_first(rest) ==
    IF starts_with(rest, <<"=", "=">>) THEN <<"=", "=">>
    ELSE IF starts_with(rest, <<"!", "=">>) THEN <<"!", "=">>
    ELSE IF starts_with(rest, <<">">>) THEN <<">">>
    ELSE IF starts_with(rest, <<"<">>) THEN <<"<">>
    ELSE IF starts_with(rest, <<">", "=">>) THEN <<">", "=">>
    ELSE IF starts_with(rest, <<"<", "=">>) THEN <<"<", "=">>
    ELSE IF starts_with(rest, <<"@", "=">>) THEN <<"@", "=">>
    ELSE IF starts_with(rest, <<"_", "=">>) THEN <<"_", "=">>
    ELSE IF starts_with(rest, <<"_", "-", "=">>) THEN <<"_", "-", "=">>
    ELSE <<"=", "=">>

\* `let operator = if rest.starts_with("==") ... else { "==" }`
operator_token(rest) ==
    IF starts_with(rest, <<"=", "=">>) THEN <<"=", "=">>
    ELSE IF starts_with(rest, <<"!", "=">>) THEN <<"!", "=">>
    ELSE IF starts_with(rest, <<">", "=">>) THEN <<">", "=">>
    ELSE IF starts_with(rest, <<"<", "=">>) THEN <<"<", "=">>
    ELSE IF starts_with(rest, <<">">>) THEN <<">">>
    ELSE IF starts_with(rest, <<"<">>) THEN <<"<">>
    ELSE IF starts_with(rest, <<"@", "=">>) THEN <<"@", "=">>
    ELSE IF starts_with(rest, <<"_", "=">>) THEN <<"_", "=">>
    ELSE IF starts_with(rest, <<"_", "-", "=">>) THEN <<"_", "-", "=">>
    ELSE <<"=", "=">>

\* `let (names, rest) = if filter.starts_with('(') && filter.contains(')')`
names_and_rest(filter) ==
    IF starts_with(filter, <<"(">>) /\ contains(filter, ")")
    THEN LET end == find(filter, {")"})
             fields == SubSeq(filter, 2, end - 1)
         IN  [names |-> map_trim(split(fields, "|")),
              rest |-> SubSeq(filter, end + 1, Len(filter))]
    ELSE LET hit == find(filter, OperatorStart)
             end == IF hit = 0 THEN Len(filter) + 1 ELSE hit
         IN  [names |-> <<trim(SubSeq(filter, 1, end - 1))>>,
              rest |-> SubSeq(filter, end, Len(filter))]

\* A parser that rejects a clause in which no operator token is found.
FilterTerm_from_str_strict(filter0) ==
    LET filter == trim(filter0)
        nr == names_and_rest(filter)
        operator == operator_token(nr.rest)
        value_str == slice_from(nr.rest, str_len(operator))
    IN  IF filter = <<>> \/ ~starts_with(nr.rest, operator)
        THEN [status |-> "Err", term |-> NoTerm]
        ELSE IF value_str.panic THEN [status |-> "panic", term |-> NoTerm]
        ELSE [status |-> "Ok",
              term |-> [names |-> nr.names,
                        values |-> map_trim(split(value_str.str, "|")),
                        operator |-> FilterOperator_from_str(operator).operator,
                        case_insensitive |->
                            ends_with(operator, <<"*">>) \/ operator = <<"@", "=">>]]

FilterTerm_from_str(filter0) ==
    LET filter == trim(filter0)
        nr == names_and_rest(filter)
        operator == operator_token(nr.rest)
        value_str == slice_from(nr.rest, str_len(operator))
        parsed_operator == FilterOperator_from_str(operator)
    IN  IF filter = <<>> THEN [status |-> "Err", term |-> NoTerm]
        ELSE IF value_str.panic THEN [status |-> "panic", term |-> NoTerm]
        ELSE [status |-> "Ok",
              term |-> [names |-> nr.names,
                        values |-> map_trim(split(value_str.str, "|")),
                        operator |-> IF parsed_operator.status = "Ok"
                                     THEN parsed_operator.operator
                                     ELSE "Equals",
                        case_insensitive |->
                            ends_with(operator, <<"*">>) \/ operator = <<"@", "=">>]]

(***************************************************************************)
(* Sort term parser (sort_term.rs).                                        *)
(***************************************************************************)
SortOrder == {"Ascending", "Descending"}

NoSort == [name |-> <<>>, order |-> "Ascending"]

\* A parser that trims the clause before it looks at the sign.
SortTerm_from_str_trimmed(sort0) ==
    LET sort == trim(sort0)
        order == IF starts_with(sort, <<"-">>) THEN "Descending" ELSE "Ascending"
        tail == slice_from(sort, 1)
    IN  IF sort = <<>> THEN [status |-> "Err", term |-> NoSort]
        ELSE [status |-> "Ok",
              term |-> [name |-> IF order = "Descending" THEN tail.str ELSE sort,
                        order |-> order]]

SortTerm_from_str(sort) ==
    LET order == IF starts_with(sort, <<"-">>) THEN "Descending" ELSE "Ascending"
        tail == slice_from(sort, 1)
    IN  IF trim(sort) = <<>> THEN [status |-> "Err", term |-> NoSort]
        ELSE IF order = "Descending" /\ tail.panic
             THEN [status |-> "panic", term |-> NoSort]
        ELSE [status |-> "Ok",
              term |-> [name |-> IF order = "Descending" THEN tail.str ELSE sort,
                        order |-> order]]

(***************************************************************************)
(* Query model (sieve_model.rs, sieve_regex.rs).                           *)
(***************************************************************************)
None == [some |-> FALSE, v |-> <<>>]
Some(x) == [some |-> TRUE, v |-> x]
NoneInt == [some |-> FALSE, v |-> 0]

\* COMMA_PATTERN.split(s) for the pattern ",\s*": each match is a comma and
\* all the whitespace that follows it.
RECURSIVE COMMA_PATTERN_split(_)
COMMA_PATTERN_split(s) ==
    LET i == find(s, {","})
    IN  IF i = 0 THEN <<s>>
        ELSE <<SubSeq(s, 1, i - 1)>>
             \o COMMA_PATTERN_split(trim_start(SubSeq(s, i + 1, Len(s))))

\* The loop `for x in pieces { if let Ok(term) = parse(x) { result.push(term) } }`
\* over already parsed pieces; a panic in any piece unwinds the whole call.
RECURSIVE collect_ok(_)
collect_ok(rs) ==
    IF rs = <<>> THEN [panic |-> FALSE, v |-> <<>>]
    ELSE LET r == Head(rs)
             more == collect_ok(Tail(rs))
         IN  IF r.status = "panic" \/ more.panic THEN [panic |-> TRUE, v |-> <<>>]
             ELSE [panic |-> FALSE,
                   v |-> (IF r.status = "Ok" THEN <<r.term>> ELSE <<>>) \o more.v]

\* A parse_filters that maps an empty filter string to None.
parse_filters_empty_is_none(filters) ==
    IF ~filters.some \/ filters.v = <<>> THEN [panic |-> FALSE, opt |-> None]
    ELSE LET pieces == split(filters.v, ",")
             res == collect_ok([i \in 1..Len(pieces) |-> FilterTerm_from_str(pieces[i])])
         IN  [panic |-> res.panic, opt |-> IF res.panic THEN None ELSE Some(res.v)]

parse_filters(filters) ==
    IF ~filters.some THEN [panic |-> FALSE, opt |-> None]
    ELSE LET pieces == split(filters.v, ",")
             res == collect_ok([i \in 1..Len(pieces) |-> FilterTerm_from_str(pieces[i])])
         IN  [panic |-> res.panic, opt |-> IF res.panic THEN None ELSE Some(res.v)]

parse_sorts(sorts) ==
    IF ~sorts.some THEN [panic |-> FALSE, opt |-> None]
    ELSE LET pieces == COMMA_PATTERN_split(sorts.v)
             res == collect_ok([i \in 1..Len(pieces) |-> SortTerm_from_str(pieces[i])])
         IN  [panic |-> res.panic, opt |-> IF res.panic THEN None ELSE Some(res.v)]

DefaultPage == 1
DefaultPageSize == 100

NoModel == [status |-> "none", page |-> 0, page_size |-> 0,
            filters |-> None, sorts |-> None]

SieveModel_new(page, page_size, filters, sorts) ==
    LET f == parse_filters(filters)
        s == parse_sorts(sorts)
    IN  IF f.panic \/ s.panic THEN [NoModel EXCEPT !.status = "panic"]
        ELSE [status |-> "Ok",
              page |-> IF page.some THEN page.v ELSE DefaultPage,
              page_size |-> IF page_size.some THEN page_size.v ELSE DefaultPageSize,
              filters |-> f.opt,
              sorts |-> s.opt]

(***************************************************************************)
(* Explored inputs.                                                        *)
(***************************************************************************)
Alphabet ==
    {"a", "1", "é", "=", "!", "<", ">", "@", "_", "-", "*", "|", "(", ")", " ", ","}
NameAlphabet == {"a", "1"}
OperatorAlphabet == {"=", "!", "<", ">", "@", "_", "-", "*"}
SortAlphabet == {"a", "-", " ", ",", "_", "é"}
LeftAlphabet == {"a", "é", "_", "-"}
QueryAlphabet == {"a", ",", " ", "=", "_", "(", ")", "|"}

OperatorTokens ==
    {<<"=", "=">>, <<"!", "=">>, <<">">>, <<"<">>, <<">", "=">>, <<"<", "=">>,
     <<"@", "=">>, <<"_", "=">>, <<"_", "-", "=">>}

NegatedTokens == {<<"!", "@", "=">>, <<"!", "_", "=">>, <<"!", "_", "-", "=">>}

\* Examples of the source's documentation.
DocContains == <<"t","i","t","l","e","@","=","R","o","c","k">>
DocMultiValue == <<"t","i","t","l","e","=","=","R","o","c","k","|","P","o","p">>
DocGrouped == <<"(","t","i","t","l","e","|","a","r","t","i","s","t",")","@","=","R","o","c","k">>
DocCreatedTime == <<"c","r","e","a","t","e","d","_","t","i","m","e",">","=","2","0","2","3","-","0","1","-","0","1">>
DocFileSize == <<"f","i","l","e","_","s","i","z","e","<","=","1","0","0">>
DocDuration == <<"d","u","r","a","t","i","o","n",">","3",":","0","0">>
DocCaseInsensitive == <<"t","i","t","l","e","@","=","*","R","o","c","k">>
DocTwoFilters == <<"t","i","t","l","e","@","=","R","o","c","k",",","a","r","t","i","s","t","=","=","Q","u","e","e","n">>
DocSorts == <<"-","c","r","e","a","t","e","d","_","t","i","m","e",",","t","i","t","l","e">>
DocSortDesc == <<"-","c","r","e","a","t","e","d","_","t","i","m","e">>
\* Malformed clauses.
BadClause == <<"b","a","d","_","c","l","a","u","s","e","_","w","i","t","h","_","n","o","_","o","p","e","r","a","t","o","r","_","c","h","a","r","s">>
TitleRock == <<"t","i","t","l","e","=","=","R","o","c","k">>
Title == <<"t","i","t","l","e">>
TitleEq == <<"t","i","t","l","e","=">>
GroupOnly == <<"(","a","|","b",")">>

Names(n) == StrOver(NameAlphabet, n) \ {<<>>}

\* field, optional "!", operator token, optional "*", value
StructuredClauses ==
    {f \o neg \o op \o star \o v :
        f \in Names(MaxName), neg \in {<<>>, <<"!">>}, op \in OperatorTokens,
        star \in {<<>>, <<"*">>}, v \in Names(MaxName)}

SimpleClauses == {f \o op \o v : f \in Names(1), op \in OperatorTokens, v \in Names(1)}

DocClauses ==
    {DocContains, DocMultiValue, DocGrouped, DocCreatedTime, DocFileSize,
     DocDuration, DocCaseInsensitive, BadClause, TitleRock, Title, TitleEq,
     GroupOnly}

FilterClauses == StrOver(Alphabet, MaxLen) \cup StructuredClauses \cup DocClauses

OperatorArgs ==
    StrOver(OperatorAlphabet, MaxLen) \cup NegatedTokens
        \cup {t \o <<"*">> : t \in NegatedTokens}

SortClauses == StrOver(SortAlphabet, MaxSortLen) \cup {DocSortDesc, Title}

LeftClauses == StrOver(LeftAlphabet, MaxLeft) \cup {BadClause, Title, TitleEq, GroupOnly}

FilterStrings ==
    StrOver(QueryAlphabet, MaxLen)
        \cup {c1 \o <<",">> \o c2 : c1 \in LeftClauses, c2 \in SimpleClauses \cup {TitleRock}}
        \cup {DocTwoFilters, DocCreatedTime, Title, TitleEq, GroupOnly}

SortStrings == StrOver(SortAlphabet, MaxSortLen) \cup {DocSorts}

FewFilters == {None, Some(<<>>), Some(DocTwoFilters), Some(Title)}
FewSorts == {None, Some(<<>>), Some(DocSorts)}
Pages == {NoneInt, Some(1), Some(2)}
PageSizes == {NoneInt, Some(10)}

(***************************************************************************)
(* The state machine: one call of a public function on one input.          *)
(***************************************************************************)
NoOp == [status |-> "none", operator |-> "Equals"]
NoTermRes == [status |-> "none", term |-> NoTerm]
NoSortRes == [status |-> "none", term |-> NoSort]

Init ==
    /\ pc = "start"
    /\ op_res = NoOp
    /\ term_res = NoTermRes
    /\ sort_res = NoSortRes
    /\ model = NoModel
    /\ \/ /\ fn = "FilterOperator::from_str"
          /\ arg \in OperatorArgs
          /\ page_arg = NoneInt /\ page_size_arg = NoneInt
          /\ filters_arg = None /\ sorts_arg = None
       \/ /\ fn = "FilterTerm::from_str"
          /\ arg \in FilterClauses
          /\ page_arg = NoneInt /\ page_size_arg = NoneInt
          /\ filters_arg = None /\ sorts_arg = None
       \/ /\ fn = "SortTerm::from_str"
          /\ arg \in SortClauses
          /\ page_arg = NoneInt /\ page_size_arg = NoneInt
          /\ filters_arg = None /\ sorts_arg = None
       \/ /\ fn = "SieveModel::new"
          /\ arg = <<>>
          /\ \/ /\ filters_arg \in {Some(s) : s \in FilterStrings}
                /\ sorts_arg = None
                /\ page_arg = NoneInt /\ page_size_arg = NoneInt
             \/ /\ filters_arg = None
                /\ sorts_arg \in {Some(s) : s \in SortStrings}
                /\ page_arg = NoneInt /\ page_size_arg = NoneInt
             \/ /\ filters_arg \in FewFilters
                /\ sorts_arg \in FewSorts
                /\ page_arg \in Pages /\ page_size_arg \in PageSizes

CallFilterOperatorFromStr ==
    /\ pc = "start" /\ fn = "FilterOperator::from_str"
    /\ op_res' = FilterOperator_from_str(arg)
    /\ pc' = "done"
    /\ UNCHANGED <<fn, arg, page_arg, page_size_arg, filters_arg, sorts_arg,
                   term_res, sort_res, model>>

CallFilterTermFromStr ==
    /\ pc = "start" /\ fn = "FilterTerm::from_str"
    /\ term_res' = FilterTerm_from_str(arg)
    /\ pc' = "done"
    /\ UNCHANGED <<fn, arg, page_arg, page_size_arg, filters_arg, sorts_arg,
                   op_res, sort_res, model>>

CallSortTermFromStr ==
    /\ pc = "start" /\ fn = "SortTerm::from_str"
    /\ sort_res' = SortTerm_from_str(arg)
    /\ pc' = "done"
    /\ UNCHANGED <<fn, arg, page_arg, page_size_arg, filters_arg, sorts_arg,
                   op_res, term_res, model>>

CallSieveModelNew ==
    /\ pc = "start" /\ fn = "SieveModel::new"
    /\ model' = SieveModel_new(page_arg, page_size_arg, filters_arg, sorts_arg)
    /\ pc' = "done"
    /\ UNCHANGED <<fn, arg, page_arg, page_size_arg, filters_arg, sorts_arg,
                   op_res, term_res, sort_res>>

Next ==
    \/ CallFilterOperatorFromStr
    \/ CallFilterTermFromStr
    \/ CallSortTermFromStr
    \/ CallSieveModelNew

Spec == Init /\ [][Next]_vars

TypeOK ==
    /\ pc \in {"start", "done"}
    /\ term_res.status \in {"none", "Ok", "Err", "panic"}
    /\ sort_res.status \in {"none", "Ok", "Err", "panic"}
    /\ model.status \in {"none", "Ok", "panic"}
    /\ op_res.operator \in FilterOperator
    /\ term_res.term.operator \in FilterOperator
    /\ sort_res.term.order \in SortOrder

(***************************************************************************)
(* Vocabulary of the properties.  These definitions read a clause the way  *)
(* the grammar of the documentation does, independently of the parser.     *)
(***************************************************************************)
Done(f) == pc = "done" /\ fn = f

\* Characters that are neither letters nor digits.
Punctuation ==
    {"=", "!", "<", ">", "@", "_", "-", "*", "|", "(", ")", " ", ",", ":"}

IsAlnum(s) == \A i \in 1..Len(s) : s[i] \notin Punctuation

\* Longest prefix and longest suffix of letters and digits, and what lies
\* between them.
ClauseField(s) ==
    LET ks == {k \in 0..Len(s) : IsAlnum(SubSeq(s, 1, k))}
    IN  SubSeq(s, 1, CHOOSE k \in ks : \A j \in ks : j <= k)

ClauseValue(s) ==
    LET ks == {k \in 1..(Len(s) + 1) : IsAlnum(SubSeq(s, k, Len(s)))}
    IN  SubSeq(s, CHOOSE k \in ks : \A j \in ks : k <= j, Len(s))

ClauseToken(s) ==
    SubSeq(s, Len(ClauseField(s)) + 1, Len(s) - Len(ClauseValue(s)))

\* s is field, token, value with a non-empty field and a non-empty value
\* of letters and digits and a token of the set T.
IsClauseWith(s, T) ==
    /\ ClauseField(s) # <<>>
    /\ ClauseValue(s) # <<>>
    /\ Len(ClauseField(s)) + Len(ClauseValue(s)) < Len(s)
    /\ ClauseToken(s) \in T

\* The operator table of the documentation.
TableOperator(t) ==
    CASE t = <<"=", "=">> -> "Equals"
      [] t = <<"!", "=">> -> "NotEquals"
      [] t = <<">">> -> "GreaterThan"
      [] t = <<"<">> -> "LessThan"
      [] t = <<">", "=">> -> "GreaterThanOrEqualTo"
      [] t = <<"<", "=">> -> "LessThanOrEqualTo"
      [] t \in {<<"@", "=">>, <<"!", "@", "=">>} -> "Contains"
      [] t \in {<<"_", "=">>, <<"!", "_", "=">>} -> "StartsWith"
      [] t \in {<<"_", "-", "=">>, <<"!", "_", "-", "=">>} -> "EndsWith"
      [] OTHER -> "none"

IsBlank(s) == \A i \in 1..Len(s) : s[i] = " "

\* The two halves of a filter string with exactly one comma.
OneComma(s) == Cardinality({i \in 1..Len(s) : s[i] = ","}) = 1
BeforeComma(s) == SubSeq(s, 1, find(s, {","}) - 1)
AfterComma(s) == SubSeq(s, find(s, {","}) + 1, Len(s))

\* A clause of letters, digits, underscores and hyphens: it holds none of
\* the nine operator tokens.
IsWordClause(s) ==
    /\ s # <<>>
    /\ \A i \in 1..Len(s) : s[i] \in {"_", "-"} \/ s[i] \notin Punctuation

\* A word clause whose first underscore or hyphen is followed by a
\* one-byte character, and the term the parser makes of it.
IsSplitWordClause(s) ==
    /\ IsWordClause(s)
    /\ LET h == find(s, {"_", "-"})
       IN  h # 0 /\ h < Len(s) /\ char_len(s[h + 1]) = 1

SplitWordTerm(s) ==
    LET h == find(s, {"_", "-"})
    IN  [names |-> <<SubSeq(s, 1, h - 1)>>, values |-> <<SubSeq(s, h + 2, Len(s))>>,
         operator |-> "Equals", case_insensitive |-> FALSE]

\* The term the grammar assigns to a well-formed single clause.
TermOf(s) ==
    [names |-> <<ClauseField(s)>>, values |-> <<ClauseValue(s)>>,
     operator |-> TableOperator(ClauseToken(s)),
     case_insensitive |-> ClauseToken(s) = <<"@", "=">>]

(***************************************************************************)
(* Properties.                                                             *)
(***************************************************************************)

\* C1: SieveModel::new never fails: for every page, page_size, filter string
\* and sort string, malformed clauses included, the call returns a model
\* and does not panic.
C1_NewNeverFails ==
    Done("SieveModel::new") => model.status = "Ok"

\* C2: every clause f<op>v with f and v non-empty strings of letters and
\* digits and <op> one of the nine operator tokens parses to names = [f],
\* values = [v] and the operator of the table; >= and <= are never read as
\* > or < followed by a value that starts with "=".
C2_SingleClauseParsesByTable ==
    (Done("FilterTerm::from_str") /\ IsClauseWith(arg, OperatorTokens)) =>
        /\ term_res.status = "Ok"
        /\ term_res.term.names = <<ClauseField(arg)>>
        /\ term_res.term.values = <<ClauseValue(arg)>>
        /\ term_res.term.operator = TableOperator(ClauseToken(arg))

C2_Witness ==
    /\ Done("FilterTerm::from_str")
    /\ arg = <<"a", ">", "=", "1">>
    /\ term_res.status = "Ok"
    /\ term_res.term.operator = "GreaterThanOrEqualTo"
    /\ term_res.term.values = <<<<"1">>>>

\* C3: a clause on a documented field name with an underscore
\* (created_time, file_size) parses to the whole field name as the only
\* name, the operator written in the clause, and the text after the
\* operator as the only value.
C3_UnderscoreFieldNames ==
    /\ (Done("FilterTerm::from_str") /\ arg = DocCreatedTime) =>
          /\ term_res.status = "Ok"
          /\ term_res.term.names = <<SubSeq(DocCreatedTime, 1, 12)>>
          /\ term_res.term.operator = "GreaterThanOrEqualTo"
          /\ term_res.term.values = <<SubSeq(DocCreatedTime, 15, 24)>>
    /\ (Done("FilterTerm::from_str") /\ arg = DocFileSize) =>
          /\ term_res.status = "Ok"
          /\ term_res.term.names = <<SubSeq(DocFileSize, 1, 9)>>
          /\ term_res.term.operator = "LessThanOrEqualTo"
          /\ term_res.term.values = <<SubSeq(DocFileSize, 12, 14)>>

\* C4: a non-empty clause that is a field name with no character of the
\* operator-starting set parses, without failing, to names = [clause],
\* operator Equals and the single empty value.
C4_NoOperatorDefaultsToEquals ==
    (Done("FilterTerm::from_str") /\ arg # <<>> /\ IsAlnum(arg)) =>
        /\ term_res.status = "Ok"
        /\ term_res.term.names = <<arg>>
        /\ term_res.term.operator = "Equals"
        /\ term_res.term.values = <<<<>>>>

C6_EmptyStringYieldsNone ==
    (Done("SieveModel::new") /\ model.status = "Ok") =>
        /\ filters_arg = Some(<<>>) => ~model.filters.some
        /\ sorts_arg = Some(<<>>) => ~model.sorts.some

\* C6 amended: an empty filter string makes the call return a model whose
\* filters are present and empty (Some of the empty sequence), and in every
\* model returned for an empty sort string the sorts are present and empty.
C6_EmptyStringYieldsPresentEmpty ==
    /\ (Done("SieveModel::new") /\ filters_arg = Some(<<>>)) =>
          model.status = "Ok" /\ model.filters = Some(<<>>)
    /\ (Done("SieveModel::new") /\ sorts_arg = Some(<<>>) /\ model.status = "Ok") =>
          model.sorts = Some(<<>>)

C6_Witness ==
    /\ Done("SieveModel::new")
    /\ filters_arg = Some(<<>>)
    /\ sorts_arg = Some(<<>>)
    /\ model.status = "Ok"
    /\ model.filters.some /\ model.filters.v = <<>>
    /\ model.sorts.some /\ model.sorts.v = <<>>

\* C7: every clause whose operator token carries the trailing marker "*"
\* parses to a term with case_insensitive = TRUE.
C7_StarMarksCaseInsensitive ==
    (/\ Done("FilterTerm::from_str")
     /\ IsClauseWith(arg, {t \o <<"*">> : t \in OperatorTokens})) =>
        term_res.status = "Ok" /\ term_res.term.case_insensitive

\* C8: a clause written with a negated operator spelling (!@=, !_=, !_-=)
\* parses to the operator of the plain spelling, with names = [f] and
\* values = [v].
C8_NegatedSpellingsCollapse ==
    (Done("FilterTerm::from_str") /\ IsClauseWith(arg, NegatedTokens)) =>
        /\ term_res.status = "Ok"
        /\ term_res.term.operator = TableOperator(ClauseToken(arg))
        /\ term_res.term.names = <<ClauseField(arg)>>
        /\ term_res.term.values = <<ClauseValue(arg)>>

\* C9: SortTerm::from_str rejects every empty or whitespace-only clause; for
\* any other clause a leading "-" gives Descending and the clause without
\* exactly that character as name, and otherwise Ascending and the clause
\* unchanged, untrimmed, as name.
C9_SortTermDirectionAndName ==
    Done("SortTerm::from_str") =>
        IF IsBlank(arg) THEN sort_res.status = "Err"
        ELSE /\ sort_res.status = "Ok"
             /\ IF arg[1] = "-"
                THEN /\ sort_res.term.order = "Descending"
                     /\ sort_res.term.name = Tail(arg)
                ELSE /\ sort_res.term.order = "Ascending"
                     /\ sort_res.term.name = arg

C9_Witness ==
    /\ Done("SortTerm::from_str")
    /\ arg = <<"-", "-", "a", " ">>
    /\ sort_res.status = "Ok"
    /\ sort_res.term.order = "Descending"
    /\ sort_res.term.name = <<"-", "a", " ">>

\* C10: every term FilterTerm::from_str returns, and so every term of the
\* filters of every model built, has at least one name and at least one
\* value.
C10_NamesAndValuesNonEmpty ==
    /\ (Done("FilterTerm::from_str") /\ term_res.status = "Ok") =>
          Len(term_res.term.names) >= 1 /\ Len(term_res.term.values) >= 1
    /\ (Done("SieveModel::new") /\ model.status = "Ok" /\ model.filters.some) =>
          \A i \in 1..Len(model.filters.v) :
              /\ Len(model.filters.v[i].names) >= 1
              /\ Len(model.filters.v[i].values) >= 1

C10_Witness ==
    /\ Done("FilterTerm::from_str")
    /\ arg = <<"(", ")", ">">>
    /\ term_res.status = "Ok"
    /\ term_res.term.names = <<<<>>>>
    /\ term_res.term.operator = "GreaterThan"
    /\ term_res.term.values = <<<<>>>>

====
